---- MODULE Spec2Model ----
(***************************************************************************)
(* Backup and restore of every database of one PostgreSQL server through   *)
(* an S3 bucket: backup/main.go (src/unnamed/part_000) and                 *)
(* restore/main.go.  Strings are sequences of one-character strings, so    *)
(* that formatting, path handling and slicing are computed, not assumed.   *)
(***************************************************************************)
EXTENDS Integers, Sequences, FiniteSets, TLC

(* ------------------------------ bounds -------------------------------- *)
MaxTick == 1     \* seconds the wall clock may advance
MaxRuns == 3     \* processes (backup or restore) started
MaxDbs  == 2     \* databases in the server's catalog
MaxRows == 2     \* rows a table of the target database holds at the start
MaxRestores == 3 \* times the one artifact is restored into the target

(* --------------------------- string helpers --------------------------- *)
DigitChars == <<"0", "1", "2", "3", "4", "5", "6", "7", "8", "9">>

Digit(d) == DigitChars[d + 1]

\* fmt.Sprintf("%d", n) for n >= 0
RECURSIVE Itoa(_)
Itoa(n) == IF n < 10 THEN <<Digit(n)>> ELSE Itoa(n \div 10) \o <<Digit(n % 10)>>

\* zero padded fields of time.Format: "01" "02" "15" "04" "05"
Pad2(n) == <<Digit((n \div 10) % 10), Digit(n % 10)>>

\* "2006": at least four digits, more when the year needs them
Pad4(n) == IF n >= 10000 THEN Itoa(n)
           ELSE <<Digit(n \div 1000), Digit((n \div 100) % 10), Digit((n \div 10) % 10), Digit(n % 10)>>

\* byte order of the characters the model uses (ASCII)
CharOrder == <<".", "/", "0", "1", "2", "3", "4", "5", "6", "7", "8", "9",
               "_", "a", "b", "c", "k", "l", "p", "q", "s", "u">>

Rank(c) == CHOOSE r \in 1..Len(CharOrder) : CharOrder[r] = c

\* strings.HasPrefix(s, p): what ListObjectsV2's Prefix selects
HasPrefix(s, p) == Len(p) <= Len(s) /\ SubSeq(s, 1, Len(p)) = p

\* lexicographic byte order, the order S3 lists keys in
RECURSIVE StrLess(_, _)
StrLess(s, t) ==
    IF t = <<>> THEN FALSE
    ELSE IF s = <<>> THEN TRUE
    ELSE IF Head(s) = Head(t) THEN StrLess(Tail(s), Tail(t))
    ELSE Rank(Head(s)) < Rank(Head(t))

(* ----------------------------- path/filepath -------------------------- *)
Sep == "/"

\* os.TempDir() with TMPDIR unset
TempDir == <<"/", "t", "m", "p">>

\* filepath.Clean restricted to what the names of the model need: runs of
\* separators collapse to one (no element of a modelled path is "." or "..",
\* and no modelled path ends in a separator when it is cleaned)
RECURSIVE Clean(_)
Clean(p) ==
    IF Len(p) < 2 THEN p
    ELSE IF p[1] = Sep /\ p[2] = Sep THEN Clean(Tail(p))
    ELSE <<p[1]>> \o Clean(Tail(p))

\* filepath.Join(dir, file), both non-empty
Join(dir, file) == Clean(dir \o <<Sep>> \o file)

RECURSIVE StripTrailingSep(_)
StripTrailingSep(p) ==
    IF Len(p) > 0 /\ p[Len(p)] = Sep THEN StripTrailingSep(SubSeq(p, 1, Len(p) - 1)) ELSE p

RECURSIVE AfterLastSep(_)
AfterLastSep(p) ==
    IF \E k \in 1..Len(p) : p[k] = Sep THEN AfterLastSep(Tail(p)) ELSE p

\* filepath.Base(path)
Base(p) ==
    IF p = <<>> THEN <<".">>
    ELSE IF StripTrailingSep(p) = <<>> THEN <<Sep>>
    ELSE AfterLastSep(StripTrailingSep(p))

(* ------------------------------- time --------------------------------- *)
\* The wall clock at tick 0 is 2023-12-31 23:59:58 UTC, two seconds before
\* 2024-01-01 00:00:00 UTC.
BaseUnix == 1704067200 - 2

\* time.Now().Unix()
Unix(t) == BaseUnix + t

DaysIn(y, m) ==
    IF m = 2 THEN (IF (y % 4 = 0 /\ y % 100 # 0) \/ y % 400 = 0 THEN 29 ELSE 28)
    ELSE IF m \in {4, 6, 9, 11} THEN 30 ELSE 31

\* the calendar fields of time.Now() at tick t (t well below one day)
Civil(t) ==
    LET secs == 58 + t
        mins == 59 + secs \div 60
        hrs  == 23 + mins \div 60
        d0   == 31 + hrs \div 24
        over == d0 > DaysIn(2023, 12)
    IN  [year  |-> IF over THEN 2024 ELSE 2023,
         month |-> IF over THEN 1 ELSE 12,
         day   |-> IF over THEN d0 - DaysIn(2023, 12) ELSE d0,
         hour  |-> hrs % 24, min |-> mins % 60, sec |-> secs % 60]

\* time.Now().Format("20060102_150405")
FormatStamp(t) ==
    LET c == Civil(t)
    IN  Pad4(c.year) \o Pad2(c.month) \o Pad2(c.day) \o <<"_">>
        \o Pad2(c.hour) \o Pad2(c.min) \o Pad2(c.sec)

(* --------------------------- artifact names --------------------------- *)
\* fmt.Sprintf("%s_backup_%s.sql", dbName, stamp)
BackupFilename(dbName, t) ==
    dbName \o <<"_", "b", "a", "c", "k", "u", "p", "_">> \o FormatStamp(t) \o <<".", "s", "q", "l">>

\* filepath.Join(os.TempDir(), backupFilename)
BackupFilePath(dbName, t) == Join(TempDir, BackupFilename(dbName, t))

\* fmt.Sprintf("%s/%s", s3KeyPrefix, filepath.Base(backupFilePath))
S3Key(prefix, path) == prefix \o <<"/">> \o Base(path)

\* the constant of backupFilename[:len(backupFilename)-27]
SuffixLen == 27

\* the slice expression panics when the name is shorter than the suffix
DecodePanics(filename) == Len(filename) < SuffixLen

DecodeName(filename) == SubSeq(filename, 1, Len(filename) - SuffixLen)

(* ------------------------------ inputs -------------------------------- *)
\* Database names of the server, in the order the catalog returns them.
\* PostgreSQL accepts any character but NUL in a quoted identifier, the path
\* separator included.
Names == << <<"b">>, <<"a", "/", "b">>, <<"a">>, <<"b", "/", "a">> >>

\* catalogs: the first n databases of the server, names being unique
Catalogs == { SubSeq(Names, 1, n) : n \in 0..MaxDbs }

\* values of S3_DIR: the directory of a backup run, or unset
Prefixes == { Itoa(Unix(t)) : t \in 0..MaxTick } \cup { <<>> }

\* objects of the bucket not written by backup: the "folder" marker "<dir>/"
\* the S3 console creates for the directory of the base time
ForeignKeys == { Itoa(Unix(0)) \o <<"/">> }

(* ------------------------------- state -------------------------------- *)
VARIABLES
    now,            \* wall clock at its last reading, in seconds after the base time
    catalog,        \* pg_database rows with datistemplate = false
    s3,             \* bucket: key -> [run, db] of the stored object
    fs,             \* paths of the files that exist under the temp dir
    runs,           \* processes started so far
    runInfo,        \* per process: [kind, prefix]
    mode,           \* program of the running process: "none", "backup", "restore"
    pc,             \* position of the running process
    s3KeyPrefix,    \* main's s3KeyPrefix
    databases,      \* backupAllDatabasesToS3's databases
    backupFiles,    \* restoreAllDatabasesFromS3's backupFiles
    i,              \* index of the range loop, 1-based
    backupFilePath, \* the loop body's backupFilePath
    deferred,       \* stack of paths given to defer os.Remove
    err,            \* error returned to main ("nil" if none)
    exitCode,       \* exit status of the process (-1 while running)
    rowsErr,        \* rows.Err() is non-nil: reading the rows failed
    st,             \* history: status of each item of the loop
    created,        \* history: local files this run created
    dumped,         \* history: databases pg_dump was invoked for, in order
    putKeys,        \* history: keys uploadToS3 was called to store, in order
    uploads,        \* history: [run, key, db] of every successful upload
    restores,       \* history: pg_restore invocations of the run [key, db, path, ok]
    pgpassword,     \* the process's PGPASSWORD: [val, call], call = the executor call that set it
    inflight,       \* external tool subprocesses of the process still running
    invocations,    \* history: tool invocations of the run [tool, call, cred, running, file]
    target,         \* tables of the database an artifact is restored into: rows, -1 = no table
    archive,        \* tables of the artifact: rows, -1 = not in the artifact
    nRestores,      \* restores of the artifact so far
    afterOK         \* history: the target after each pg_restore that succeeded

envVars  == <<now, catalog, s3, fs>>
procVars == <<runs, runInfo, mode, pc, s3KeyPrefix, databases, backupFiles, i,
              backupFilePath, deferred, err, exitCode, rowsErr>>
histVars == <<st, created, dumped, putKeys, uploads, restores>>
credVars == <<pgpassword, inflight, invocations>>
dbVars   == <<target, archive, nRestores, afterOK>>
vars == <<now, catalog, s3, fs, runs, runInfo, mode, pc, s3KeyPrefix, databases,
          backupFiles, i, backupFilePath, deferred, err, exitCode, rowsErr,
          st, created, dumped, putKeys, uploads, restores,
          pgpassword, inflight, invocations, target, archive, nRestores, afterOK>>

\* tables a database or an artifact may hold
Tables == {"t1", "t2"}

NoTables == [t \in Tables |-> -1]

\* PGPASSWORD of a process that has not set it
Unset == [val |-> "", call |-> 0]

\* main's dbPassword
DbPassword == "postgres"

InitProgram ==
    /\ now = 0
    /\ catalog \in Catalogs
    /\ s3 = << >>
    /\ fs = {}
    /\ runs = 0
    /\ runInfo = << >>
    /\ mode = "none"
    /\ pc = "idle"
    /\ s3KeyPrefix = << >>
    /\ databases = << >>
    /\ backupFiles = << >>
    /\ i = 1
    /\ backupFilePath = << >>
    /\ deferred = << >>
    /\ err = "nil"
    /\ exitCode = -1
    /\ rowsErr = FALSE
    /\ st = << >>
    /\ created = {}
    /\ dumped = << >>
    /\ putKeys = << >>
    /\ uploads = {}
    /\ restores = << >>
    /\ pgpassword = Unset
    /\ inflight = 0
    /\ invocations = << >>

\* the two programs do not look into the databases: their contents are left out
Init ==
    /\ InitProgram
    /\ target = NoTables
    /\ archive = NoTables
    /\ nRestores = 0
    /\ afterOK = << >>

(* --------------------------- shared helpers --------------------------- *)
Range(f) == { f[x] : x \in DOMAIN f }

\* PutObject: the object under key is created or overwritten
Put(store, key, obj) == [k \in DOMAIN store \cup {key} |-> IF k = key THEN obj ELSE store[k]]

\* ListObjectsV2 with Prefix: every key that starts with the prefix, in
\* byte order
RECURSIVE SortKeys(_)
SortKeys(S) ==
    IF S = {} THEN << >>
    ELSE LET m == CHOOSE x \in S : \A y \in S \ {x} : StrLess(x, y)
         IN  <<m>> \o SortKeys(S \ {m})

ListKeys(store, prefix) == SortKeys({ k \in DOMAIN store : HasPrefix(k, prefix) })

\* time.Now(): the clock is read; it has not gone back since the last reading
ClockReads == now..MaxTick

\* the deferred os.Remove calls of a returning (or panicking) function
RunDeferred(files, stack) == files \ Range(stack)

\* a main that treats every return as fatal
MainAlwaysFatal(e) == 1

\* log.Fatalf exits with status 1; a nil error lets main return
MainExitCode(e) == IF e = "nil" THEN 0 ELSE 1

\* a loop that gives up at the first failing element
Break(k, n) == n + 1

\* "continue": the range loop goes on with the next element
Continue(k, n) == k + 1

\* a loop body without the "continue" of the dump's error check
DumpErrorFallsThrough(k, n) == [pc |-> "upload", i |-> k]

\* the error check after backupDatabase: log, "continue"
OnDumpError(k, n) == [pc |-> "loop", i |-> Continue(k, n)]

\* a loop body without the "continue" of the download's error check
DownloadErrorFallsThrough(k, n) == [pc |-> "restore", i |-> k]

\* the error check after downloadFromS3: log, "continue"
OnDownloadError(k, n) == [pc |-> "loop", i |-> Continue(k, n)]

\* a range loop that expects one element more than the slice has
LoopDoneLate(k, n) == k > n + 1

\* the range loop has gone through all n elements
LoopDone(k, n) == k > n

\* an executor that does not set the variable
SetenvSkipped(old, val, call) == old

\* os.Setenv("PGPASSWORD", dbPassword) in executor call number call
Setenv(old, val, call) == [val |-> val, call |-> call]

\* cmd.Start(): the subprocess is left running
StartCmd(n) == n + 1

\* cmd.Run(): the subprocess is started and waited for; n subprocesses were
\* running before and n are running after
RunCmd(n) == n

\* one executor call: the variable is set, then the tool runs and reads it
Invoke(tool, file) ==
    LET call == Len(invocations) + 1
    IN  /\ pgpassword' = Setenv(pgpassword, DbPassword, call)
        /\ invocations' = Append(invocations, [tool |-> tool, call |-> call,
                                                cred |-> pgpassword', running |-> inflight,
                                                file |-> file])
        /\ inflight' = RunCmd(inflight)

\* getDatabaseList's returned error for each way the enumeration can end
ListError(outcome) == IF outcome \in {"open", "query", "scan"} THEN outcome ELSE "nil"

NewProcess(kind, prefix, t) ==
    /\ pc \in {"idle", "exit"}
    /\ now' = t
    /\ runs < MaxRuns
    /\ runs' = runs + 1
    /\ runInfo' = Append(runInfo, [kind |-> kind, prefix |-> prefix])
    /\ mode' = kind
    /\ s3KeyPrefix' = prefix
    /\ databases' = << >>
    /\ backupFiles' = << >>
    /\ i' = 1
    /\ backupFilePath' = << >>
    /\ deferred' = << >>
    /\ err' = "nil"
    /\ exitCode' = -1
    /\ rowsErr' = FALSE
    /\ st' = << >>
    /\ created' = {}
    /\ dumped' = << >>
    /\ putKeys' = << >>
    /\ restores' = << >>
    /\ pgpassword' = Unset
    /\ inflight' = 0
    /\ invocations' = << >>
    /\ UNCHANGED <<catalog, s3, fs, uploads, dbVars>>

(* ------------------------------ backup -------------------------------- *)
\* main: s3KeyPrefix := fmt.Sprintf("%d", time.Now().Unix())
StartBackup ==
    \E t \in ClockReads :
        /\ NewProcess("backup", Itoa(Unix(t)), t)
        /\ pc' = "enumerate"

\* getDatabaseList and the error check of its caller
GetDatabaseList ==
    /\ mode = "backup" /\ pc = "enumerate"
    /\ \E outcome \in {"open", "query", "scan", "rows", "ok"} :
         /\ outcome = "scan" => Len(catalog) > 0
         /\ outcome = "rows" => Len(catalog) > 0
         /\ \E n \in 0..Len(catalog) :
              /\ outcome = "rows" => n < Len(catalog)
              /\ outcome # "rows" => n = Len(catalog)
              /\ err' = ListError(outcome)
              /\ rowsErr' = (outcome = "rows")
              /\ databases' = IF err' = "nil" THEN SubSeq(catalog, 1, n) ELSE << >>
              /\ st' = [k \in 1..Len(databases') |-> "Pending"]
              /\ pc' = IF err' = "nil" THEN "loop" ELSE "main"
    /\ UNCHANGED <<envVars, runs, runInfo, mode, s3KeyPrefix, backupFiles, i,
                   backupFilePath, deferred, exitCode, created, dumped, putKeys,
                   uploads, restores, credVars, dbVars>>

\* loop body, first half: backupDatabase, its error check, the defer
BackupDatabase ==
    /\ mode = "backup" /\ pc = "loop" /\ i <= Len(databases)
    /\ \E t \in ClockReads, ok \in BOOLEAN, written \in BOOLEAN :
         LET dbName == databases[i]
             path   == BackupFilePath(dbName, t)
         IN     /\ now' = t
                /\ Invoke("pg_dump", path)
                /\ dumped' = Append(dumped, dbName)
                \* pg_dump opens its output file before it can fail
                /\ ok => written
                /\ fs' = IF written THEN fs \cup {path} ELSE fs
                /\ created' = IF written THEN created \cup {path} ELSE created
                /\ IF ok
                   THEN /\ backupFilePath' = path
                        /\ deferred' = <<path>> \o deferred
                        /\ st' = [st EXCEPT ![i] = "Dumped"]
                        /\ pc' = "upload"
                        /\ i' = i
                   ELSE /\ backupFilePath' = << >>
                        /\ st' = [st EXCEPT ![i] = "FailedAtDump"]
                        /\ i' = OnDumpError(i, Len(databases)).i
                        /\ pc' = OnDumpError(i, Len(databases)).pc
                        /\ UNCHANGED deferred
    /\ UNCHANGED <<catalog, s3, runs, runInfo, mode, s3KeyPrefix, databases,
                   backupFiles, err, exitCode, rowsErr, putKeys, uploads, restores, dbVars>>

\* loop body, second half: uploadToS3 and its error check
UploadToS3 ==
    /\ mode = "backup" /\ pc = "upload"
    /\ LET s3Key == S3Key(s3KeyPrefix, backupFilePath)
       IN  \E outcome \in {"config", "open", "put", "ok"} :
             /\ outcome = "open" <=> backupFilePath \notin fs
             /\ putKeys' = Append(putKeys, s3Key)
             /\ IF outcome = "ok"
                THEN /\ s3' = Put(s3, s3Key, [run |-> runs, db |-> databases[i]])
                     /\ uploads' = uploads \cup {[run |-> runs, key |-> s3Key, db |-> databases[i]]}
                     /\ st' = [st EXCEPT ![i] = "Done"]
                     /\ i' = i + 1
                ELSE /\ st' = [st EXCEPT ![i] = "FailedAtUpload"]
                     /\ i' = Continue(i, Len(databases))
                     /\ UNCHANGED <<s3, uploads>>
             /\ pc' = "loop"
    /\ UNCHANGED <<now, catalog, fs, runs, runInfo, mode, s3KeyPrefix, databases,
                   backupFiles, backupFilePath, deferred, err, exitCode, rowsErr,
                   created, dumped, restores, credVars, dbVars>>

\* the range loop is over: return nil, and the deferred removals run
BackupReturn ==
    /\ mode = "backup" /\ pc = "loop" /\ LoopDone(i, Len(databases))
    /\ fs' = RunDeferred(fs, deferred)
    /\ deferred' = << >>
    /\ err' = "nil"
    /\ pc' = "main"
    /\ UNCHANGED <<now, catalog, s3, runs, runInfo, mode, s3KeyPrefix, databases,
                   backupFiles, i, backupFilePath, exitCode, rowsErr, histVars,
                   credVars, dbVars>>

\* main: log.Fatalf on an error, else return
BackupMain ==
    /\ mode = "backup" /\ pc = "main"
    /\ exitCode' = MainExitCode(err)
    /\ pc' = "exit"
    /\ UNCHANGED <<envVars, runs, runInfo, mode, s3KeyPrefix, databases, backupFiles,
                   i, backupFilePath, deferred, err, rowsErr, histVars, credVars, dbVars>>

(* ------------------------------ restore ------------------------------- *)
\* main: s3KeyPrefix := os.Getenv("S3_DIR")
StartRestore ==
    \E dir \in Prefixes :
        /\ NewProcess("restore", dir, now)
        /\ pc' = "list"

\* listS3BackupFiles and the error check of its caller
ListS3BackupFiles ==
    /\ mode = "restore" /\ pc = "list"
    /\ \E outcome \in {"config", "list", "ok"} :
         /\ err' = IF outcome = "ok" THEN "nil" ELSE outcome
         /\ backupFiles' = IF outcome = "ok" THEN ListKeys(s3, s3KeyPrefix) ELSE << >>
         /\ st' = [k \in 1..Len(backupFiles') |-> "Pending"]
         /\ pc' = IF outcome = "ok" THEN "loop" ELSE "main"
    /\ UNCHANGED <<envVars, runs, runInfo, mode, s3KeyPrefix, databases, i,
                   backupFilePath, deferred, exitCode, rowsErr, created, dumped,
                   putKeys, uploads, restores, credVars, dbVars>>

\* loop body, first half: downloadFromS3, its error check, the defer
DownloadFromS3 ==
    /\ mode = "restore" /\ pc = "loop" /\ i <= Len(backupFiles)
    /\ LET s3Key == backupFiles[i]
           path  == Join(TempDir, Base(s3Key))
       IN  \E outcome \in {"config", "create", "download", "ok"} :
             \* os.Create precedes the transfer: the file exists from there on
             /\ fs' = IF outcome \in {"download", "ok"} THEN fs \cup {path} ELSE fs
             /\ created' = IF outcome \in {"download", "ok"} THEN created \cup {path} ELSE created
             /\ backupFilePath' = path
             /\ IF outcome = "ok"
                THEN /\ deferred' = <<path>> \o deferred
                     /\ st' = [st EXCEPT ![i] = "Downloaded"]
                     /\ pc' = "restore"
                     /\ i' = i
                ELSE /\ st' = [st EXCEPT ![i] = "FailedAtDownload"]
                     /\ i' = OnDownloadError(i, Len(backupFiles)).i
                     /\ pc' = OnDownloadError(i, Len(backupFiles)).pc
                     /\ UNCHANGED deferred
    /\ UNCHANGED <<now, catalog, s3, runs, runInfo, mode, s3KeyPrefix, databases,
                   backupFiles, err, exitCode, rowsErr, dumped, putKeys, uploads, restores,
                   credVars, dbVars>>

\* loop body, second half: the slice that decodes the name, restoreDatabase
\* and its error check.  A slice bound below zero panics: the deferred calls
\* run and the process dies with status 2.
RestoreDatabase ==
    /\ mode = "restore" /\ pc = "restore"
    /\ LET backupFilename == Base(backupFiles[i])
       IN  IF DecodePanics(backupFilename)
           THEN /\ fs' = RunDeferred(fs, deferred)
                /\ deferred' = << >>
                /\ err' = "panic"
                /\ exitCode' = 2
                /\ pc' = "exit"
                /\ UNCHANGED <<i, st, restores, credVars>>
           ELSE \E ok \in BOOLEAN :
                /\ Invoke("pg_restore", backupFilePath)
                /\ restores' = Append(restores, [key |-> backupFiles[i],
                                                  db |-> DecodeName(backupFilename),
                                                  path |-> backupFilePath, ok |-> ok])
                /\ st' = [st EXCEPT ![i] = IF ok THEN "Restored" ELSE "FailedAtRestore"]
                /\ i' = IF ok THEN i + 1 ELSE Continue(i, Len(backupFiles))
                /\ pc' = "loop"
                /\ UNCHANGED <<fs, deferred, err, exitCode>>
    /\ UNCHANGED <<now, catalog, s3, runs, runInfo, mode, s3KeyPrefix, databases,
                   backupFiles, backupFilePath, rowsErr, created, dumped, putKeys, uploads,
                   dbVars>>

\* the range loop is over: return nil, and the deferred removals run
RestoreReturn ==
    /\ mode = "restore" /\ pc = "loop" /\ LoopDone(i, Len(backupFiles))
    /\ fs' = RunDeferred(fs, deferred)
    /\ deferred' = << >>
    /\ err' = "nil"
    /\ pc' = "main"
    /\ UNCHANGED <<now, catalog, s3, runs, runInfo, mode, s3KeyPrefix, databases,
                   backupFiles, i, backupFilePath, exitCode, rowsErr, histVars,
                   credVars, dbVars>>

\* main: log.Fatalf on an error, else return
RestoreMain ==
    /\ mode = "restore" /\ pc = "main"
    /\ exitCode' = MainExitCode(err)
    /\ pc' = "exit"
    /\ UNCHANGED <<envVars, runs, runInfo, mode, s3KeyPrefix, databases, backupFiles,
                   i, backupFilePath, deferred, err, rowsErr, histVars, credVars, dbVars>>

(* ---------------------------- environment ----------------------------- *)
\* another party stores an object in the bucket; only its order with respect
\* to the listing of a restore run matters, so it is taken between processes
ForeignPut ==
    /\ pc \in {"idle", "exit"}
    /\ \E key \in ForeignKeys :
         /\ key \notin DOMAIN s3
         /\ s3' = Put(s3, key, [run |-> 0, db |-> << >>])
    /\ UNCHANGED <<now, catalog, fs, procVars, histVars, credVars, dbVars>>

Next ==
    \/ StartBackup \/ GetDatabaseList \/ BackupDatabase \/ UploadToS3
    \/ BackupReturn \/ BackupMain
    \/ StartRestore \/ ListS3BackupFiles \/ DownloadFromS3 \/ RestoreDatabase
    \/ RestoreReturn \/ RestoreMain
    \/ ForeignPut

Spec == Init /\ [][Next]_vars

(* ------------------- restoring one artifact repeatedly ---------------- *)
\* contents a database can have before the first restore
DbStates == [Tables -> -1..MaxRows]

\* artifacts: at least one table, each with its rows
Archives == { a \in [Tables -> -1..MaxRows] : \E t \in Tables : a[t] >= 0 }

\* a pg_restore command line without "-c"
NoCleanFlag == FALSE

\* the "-c" of the pg_restore command line
CleanFlag == TRUE

\* pg_restore on one table: a table the artifact does not hold is left alone;
\* with the clean flag the table is dropped, created and loaded; without it
\* the creation of a table that exists fails and the rows are loaded on top
PgRestoreTable(cur, arc, clean) ==
    IF arc = -1 THEN cur
    ELSE IF clean \/ cur = -1 THEN arc
    ELSE cur + arc

\* pg_restore that got through the tables in done before it ended
PgRestore(db, arc, clean, done) ==
    [t \in Tables |-> IF t \in done THEN PgRestoreTable(db[t], arc[t], clean) ELSE db[t]]

InitRestore ==
    /\ InitProgram
    /\ target \in DbStates
    /\ archive \in Archives
    /\ nRestores = 0
    /\ afterOK = << >>

\* restoreDatabase called for the artifact and the target once more; a
\* pg_restore that fails has handled some of the tables
RestoreArtifact ==
    /\ nRestores < MaxRestores
    /\ nRestores' = nRestores + 1
    /\ Invoke("pg_restore", backupFilePath)
    /\ \E ok \in BOOLEAN, done \in SUBSET Tables :
         /\ ok => done = Tables
         /\ target' = PgRestore(target, archive, CleanFlag, done)
         /\ afterOK' = IF ok THEN Append(afterOK, target') ELSE afterOK
    /\ UNCHANGED <<envVars, procVars, histVars, archive>>

NextRestore == RestoreArtifact

SpecRestore == InitRestore /\ [][NextRestore]_vars

(* ============================== claims ================================ *)
BackupExited  == mode = "backup" /\ pc = "exit"
RestoreExited == mode = "restore" /\ pc = "exit"

\* the enumeration failed: getDatabaseList returned an error, or the reading
\* of the result rows stopped on an error
EnumerationFailed == err \in {"open", "query", "scan"} \/ rowsErr

ListingFailed == err \in {"config", "list"}

Terminal == {"Done", "FailedAtDump", "FailedAtUpload"}

\* C1 -- Name round trip: the name restore decodes from the basename of the
\* file a backup stored is the name of the database the file was dumped from,
\* for every database name and every capture time.
C1_NameRoundTrip ==
    \A u \in uploads :
        /\ ~DecodePanics(Base(u.key))
        /\ DecodeName(Base(u.key)) = u.db

\* C2 -- Backup failure isolation: when a backup run over an enumerated list
\* ends, every enumerated database had its dump invoked, once and in order,
\* whatever failed before it; every database reached a terminal status (an
\* upload was attempted for each one dumped); every database whose dump and
\* upload succeeded has its object in the bucket; the run is not fatal.
C2_FailureIsolation ==
    (BackupExited /\ err = "nil") =>
        /\ dumped = databases
        /\ \A k \in DOMAIN st : st[k] \in Terminal
        /\ \A k \in DOMAIN st :
              st[k] = "Done" =>
                \E u \in uploads : u.run = runs /\ u.db = databases[k] /\ u.key \in DOMAIN s3
        /\ exitCode = 0

\* a run over at least two databases where the first dump failed and the
\* second database was dumped and uploaded
C2_Witness ==
    /\ BackupExited /\ Len(databases) >= 2
    /\ st[1] = "FailedAtDump" /\ st[2] = "Done"
    /\ exitCode = 0

\* C3 -- Fatal enumeration: when the enumeration fails at any point, nothing
\* is dumped or uploaded and the run ends with a nonzero exit status.
C3_FatalEnumeration ==
    (mode = "backup" /\ EnumerationFailed) =>
        /\ dumped = << >>
        /\ putKeys = << >>
        /\ pc = "exit" => exitCode # 0

\* C4 -- Local cleanup on every exit path: when a run has ended, no local
\* file the run created is left.
C4_LocalCleanup ==
    pc = "exit" => created \cap fs = {}

\* C5 -- Backup exit status: a backup run exits nonzero if and only if the
\* enumeration failed.
C5_BackupExitStatus ==
    BackupExited => (exitCode # 0 <=> EnumerationFailed)

\* C6 -- Restore failure handling: a restore run exits nonzero if and only
\* if the listing failed; when the listing succeeded every listed key has
\* been processed at the end of the run.
C6_RestoreFailureHandling ==
    RestoreExited =>
        /\ exitCode # 0 <=> ListingFailed
        /\ ~ListingFailed => \A k \in DOMAIN st : st[k] # "Pending"

\* C7 -- Backup/restore correlation: in a bucket that holds only objects of
\* backup runs, a restore run given the prefix of a backup run lists exactly
\* the keys that run uploaded, and every pg_restore it invokes targets the
\* database the object under the key was dumped from.
C7_Correlation ==
    ( /\ mode = "restore" /\ pc \in {"loop", "restore", "main", "exit"}
      /\ ~ListingFailed
      /\ \A k \in DOMAIN s3 : s3[k].run # 0 ) =>
        \A r \in DOMAIN runInfo :
            (runInfo[r].kind = "backup" /\ runInfo[r].prefix = s3KeyPrefix) =>
                /\ Range(backupFiles) = { u.key : u \in { v \in uploads : v.run = r } }
                /\ \A x \in DOMAIN restores :
                      restores[x].db = s3[restores[x].key].db

\* C8 -- Remote key layout: every object a backup run uploaded has the key
\* "<prefix>/<databaseName>_backup_<stamp>.sql" for a clock reading of the
\* run, where the prefix is the one the run fixed at its start.
C8_KeyLayout ==
    \A u \in uploads :
        \E t \in 0..MaxTick :
            u.key = runInfo[u.run].prefix \o <<"/">> \o BackupFilename(u.db, t)

\* C9 -- End-of-run removal ordering: a step that removes a local file is
\* taken only when every item of the run has been attempted.
C9_RemovalOrdering ==
    [][ (\E p \in fs : p \notin fs') => (\A k \in DOMAIN st : st[k] # "Pending") ]_vars

\* C10 -- Empty fleet: when the enumeration succeeds with zero databases the
\* run invokes no dump and no upload, stores nothing, and exits with 0.
C10_EmptyFleet ==
    ( /\ mode = "backup" /\ pc \in {"loop", "main", "exit"}
      /\ ~EnumerationFailed /\ databases = << >> ) =>
        /\ dumped = << >>
        /\ putKeys = << >>
        /\ \A u \in uploads : u.run # runs
        /\ pc = "exit" => exitCode = 0

\* a backup run over an empty catalog has ended
C10_Witness ==
    /\ BackupExited /\ ~EnumerationFailed
    /\ catalog = << >> /\ databases = << >>
    /\ exitCode = 0

BackupStep ==
    \/ GetDatabaseList
    \/ BackupDatabase
    \/ UploadToS3
    \/ BackupReturn
    \/ BackupMain

NextBackup ==
    \/ StartBackup
    \/ BackupStep

\* the program is sequential and every call it makes returns (cmd.Run
\* blocks until the tool exits, the SDK calls return a result or an error),
\* so a started process keeps taking its next step
SpecBackupRun == Init /\ [][NextBackup]_vars /\ WF_vars(BackupStep)

\* C12 -- Decode is total: decoding the name of a listed key never fails,
\* so at the end of a restore run whose listing succeeded no key is left
\* unprocessed or stopped between its download and its restore.
C12_DecodeTotal ==
    mode = "restore" =>
        /\ err # "panic"
        /\ (pc = "exit" /\ ~ListingFailed) =>
              \A k \in DOMAIN st : st[k] \notin {"Pending", "Downloaded"}

\* the moves of a database's status; the successful return of uploadToS3
\* (Uploaded) ends the iteration (Done) in the same step
BackupEdges ==
    { <<"Pending", "Dumped">>, <<"Dumped", "Done">>,
      <<"Pending", "FailedAtDump">>, <<"Dumped", "FailedAtUpload">> }

\* C13 -- Per-database backup state machine: within a backup run a status
\* changes only along Pending -> Dumped -> (Uploaded) Done, Pending ->
\* FailedAtDump, Dumped -> FailedAtUpload; uploadToS3 is called only for the
\* database that has just been dumped; a database whose dump failed has no
\* upload of the run.
C13_BackupStateMachine ==
    [][ (mode = "backup" /\ runs' = runs /\ pc # "enumerate") =>
          /\ \A k \in DOMAIN st : st'[k] = st[k] \/ <<st[k], st'[k]>> \in BackupEdges
          /\ putKeys' # putKeys => (pc = "upload" /\ st[i] = "Dumped")
          /\ \A k \in DOMAIN st :
                st'[k] = "FailedAtDump" =>
                    ~\E u \in uploads' : u.run = runs /\ u.db = databases[k]
      ]_vars

\* a backup run with a database failed at its dump and one failed at its upload
C13_Witness ==
    /\ BackupExited
    /\ \E k \in DOMAIN st : st[k] = "FailedAtDump"
    /\ \E k \in DOMAIN st : st[k] = "FailedAtUpload"

\* C14 -- Restore step order per key: pg_restore is invoked only for the key
\* of the current iteration, after its download succeeded and the removal of
\* the downloaded file was scheduled, on that file, and against the name
\* that is the key's basename without its last 27 characters.
C14_RestoreStepOrder ==
    [][ (restores' # restores /\ runs' = runs) =>
          LET rec  == restores'[Len(restores')]
              base == Base(backupFiles[i])
          IN  /\ restores' = Append(restores, rec)
              /\ st[i] = "Downloaded"
              /\ backupFilePath \in fs
              /\ backupFilePath \in Range(deferred)
              /\ rec.key = backupFiles[i]
              /\ rec.path = backupFilePath
              /\ Len(base) = Len(rec.db) + 27
              /\ SubSeq(base, 1, Len(rec.db)) = rec.db
      ]_vars

\* a restore run that invoked pg_restore for the dump of database "b"
C14_Witness ==
    /\ mode = "restore"
    /\ \E x \in DOMAIN restores : restores[x].db = <<"b">> /\ restores[x].ok

\* C15 -- Credential discipline: every tool invocation reads the password
\* set by its own executor call, and no other tool of the process is
\* running when it starts or after it.
C15_CredentialDiscipline ==
    /\ inflight <= 1
    /\ \A x \in DOMAIN invocations :
          /\ invocations[x].cred = [val |-> DbPassword, call |-> invocations[x].call]
          /\ invocations[x].running = 0

\* a process that has invoked a tool at least twice
C15_Witness ==
    /\ mode \in {"backup", "restore"}
    /\ Len(invocations) >= 2

\* C16 -- No local filename collision within a run: the tool invocations of
\* one run, each for another database or key, use different local files.
C16_NoLocalCollision ==
    mode \in {"backup", "restore"} =>
        \A x, y \in DOMAIN invocations :
            x # y => invocations[x].file # invocations[y].file

\* C17 -- Bounded termination of backup: a started backup process exits,
\* and when it exits after a successful enumeration every database of the
\* list has been attempted exactly once and has a terminal status.
C17_BackupTerminates ==
    /\ [](BackupExited /\ ~EnumerationFailed =>
            /\ Len(dumped) = Len(databases)
            /\ \A k \in DOMAIN databases :
                  /\ Cardinality({x \in DOMAIN dumped : x = k /\ dumped[x] = databases[k]}) = 1
                  /\ st[k] \in Terminal)
    /\ (mode = "backup" /\ pc # "exit") ~> BackupExited

\* a backup process that exited after attempting two databases
C17_Witness ==
    /\ BackupExited
    /\ Len(databases) = 2
    /\ Len(dumped) = 2
====
